---- MODULE Spec2Model ----
\* A model of the two study-form pages of comit-space-client:
\*   create page: src/app/(main)/study/open/page.tsx        (OpenStudy)
\*   edit page:   src/app/(main)/mystudy/[id]/edit/page.tsx (StudyEditPage)
\* The model starts once the session is established (both pages render nothing
\* of interest before that) and covers the tag editor, the file picker, the
\* mount-time fetch of the edit page and the two onSubmit handlers together
\* with the object storage they drive. The tag handlers, the file picker and
\* the schema are the same text in both pages; they are modelled once. State
\* that none of the modelled handlers reads back is left out: the preview
\* image, the Date mirrors of the time pickers and isRecruiting.
\* The button that opens the create page's confirmation dialog (trigger(),
\* then isValid && setTagError('')) is left out as well: it adds no tag and
\* sends nothing.
EXTENDS Integers, Sequences, FiniteSets, TLC

\* ---------------------------------------------------------------- bounds
\* Number of distinct letters the user can type as a one-letter tag.
NumLetters == 3
\* Number of times onSubmit may run during one page visit.
MaxAttempts == 2

\* ------------------------------------------------------ program constants
\* watchedTags.length === 4
MaxTags == 4
\* description: z.string().min(1).max(800)
DescMax == 800
\* HttpStatusCode.NotFound
NotFound == 404

\* ---------------------------------------------------------------- strings
\* A string is a sequence of one-character strings, so that trim() can be
\* computed rather than assumed.
Space == " "
Alphabet == <<"a", "b", "c", "d", "e", "f", "g", "h">>
Letters == {Alphabet[i] : i \in 1..NumLetters}
EmptyStr == <<>>

RECURSIVE TrimStart(_)
TrimStart(s) ==
    IF s = <<>> THEN s
    ELSE IF Head(s) = Space THEN TrimStart(Tail(s)) ELSE s

RECURSIVE TrimEnd(_)
TrimEnd(s) ==
    IF s = <<>> THEN s
    ELSE IF s[Len(s)] = Space THEN TrimEnd(SubSeq(s, 1, Len(s) - 1)) ELSE s

\* String.prototype.trim(), as used on e.currentTarget.value
Trim(s) == TrimEnd(TrimStart(s))

\* What the user may type into the tag input: nothing, blanks, one letter,
\* or the first letter padded with a blank on either side.
Candidates ==
    {EmptyStr, <<Space>>, <<Space, Space>>}
        \cup {<<l>> : l \in Letters}
        \cup {<<Space, Alphabet[1]>>, <<Alphabet[1], Space>>}

\* The smaller input set used while the submission flows are explored.
FlowCandidates == {<<Alphabet[1]>>, <<Space, Alphabet[1]>>}

Range(s) == {s[i] : i \in 1..Len(s)}
NoDuplicates(s) == \A i, j \in 1..Len(s) : s[i] = s[j] => i = j

\* ---------------------------------------------------------------- values
Pages == {"create", "edit"}
\* The local files the user can pick, and null.
Files == {"file1"}
NoFile == "null"

\* imageSrc values: undefined, a local preview (URL.createObjectURL), the URL
\* stored in the fetched record, or the URL returned by an upload.
NoImage == [kind |-> "none", id |-> 0]
BlobUrl(f) == [kind |-> "blob", id |-> f]
StoredUrl == [kind |-> "stored", id |-> 0]
UploadUrl(i) == [kind |-> "upload", id |-> i]

\* The fields other than imageSrc and tags. title and description are kept
\* by their length (the schema only constrains the length); the five picker
\* fields by whether they hold one of their enumerated values.
Blank ==
    [title |-> 0, day |-> FALSE, startTime |-> FALSE, endTime |-> FALSE,
     campus |-> FALSE, level |-> FALSE, description |-> 0]
Filled ==
    [title |-> 1, day |-> TRUE, startTime |-> TRUE, endTime |-> TRUE,
     campus |-> TRUE, level |-> TRUE, description |-> 1]
FieldChoices ==
    {Blank, Filled, [Filled EXCEPT !.description = DescMax + 1]}

\* zodResolver(schema)
Valid(data) ==
    /\ data.imageSrc # NoImage
    /\ data.fields.title >= 1
    /\ data.fields.day
    /\ data.fields.startTime
    /\ data.fields.endTime
    /\ data.fields.campus
    /\ data.fields.level
    /\ Len(data.tags) >= 1
    /\ data.fields.description >= 1
    /\ data.fields.description <= DescMax

NoData == [imageSrc |-> NoImage, tags |-> <<>>, fields |-> Blank]

\* Records the RETRIEVE endpoint may return (json.data). The backend is not
\* bound by the client's tag rules, so lists with a repeated entry and with
\* five entries are among them.
W(i) == <<Alphabet[i]>>
FetchedTagLists ==
    {<<W(1), W(2), W(3)>>, <<W(1), W(2), W(3), W(4)>>,
     <<W(1), W(1), W(2)>>, <<W(1), W(2), W(3), W(4), W(5)>>}
Studies == {[imageSrc |-> StoredUrl, tags |-> t, fields |-> Filled] : t \in FetchedTagLists}

\* ------------------------------------------------- object storage (hooks)
\* useSupabaseFile is not part of the sources at hand; the storage is
\* modelled from its documented contract: upload creates a provisional
\* object, which commit() finalizes and delete() removes.
StorageUpload(objs, f) == Append(objs, [file |-> f, status |-> "provisional"])
StorageCommit(objs, i) == [objs EXCEPT ![i].status = "committed"]
StorageDelete(objs, i) == [objs EXCEPT ![i].status = "deleted"]

\* ---------------------------------------------------------------- state
VARIABLES
    page,         \* which of the two pages is mounted
    route,        \* "page" while the page is shown, else where it went
    isLoading,    \* edit page: useState(true)
    fetchStatus,  \* edit page: 0 until RETRIEVE has answered, then the status
    study,        \* edit page: json.data of the RETRIEVE answer
    imageFile,    \* useState<File | null>
    imageSrc,     \* form value imageSrc
    fields,       \* form values title..description
    description,  \* edit page: useState mirror of the description
    tags,         \* form value tags (watchedTags / getValues('tags'))
    currentTag,   \* useState, the controlled value of the tag input
    stackError,   \* useState, the capacity message
    tagsError,    \* errors.tags
    pc,           \* where the running onSubmit is suspended
    sub,          \* the latest run of onSubmit
    objects,      \* the storage: one entry per upload
    toasts,       \* notifications shown so far
    attempts      \* how many times onSubmit has run

vars ==
    <<page, route, isLoading, fetchStatus, study, imageFile, imageSrc, fields,
      description, tags, currentTag, stackError, tagsError, pc, sub, objects,
      toasts, attempts>>

tagVars == <<tags, currentTag, stackError, tagsError>>
fetchVars == <<isLoading, fetchStatus, study>>
flowVars == <<pc, sub, objects, attempts>>

CapacityMsg == "max4"
\* A run of onSubmit: the file it saw staged, the validated form data it was
\* given, the objects it uploaded (0: none), whether the backend call was
\* issued and with which payload, and how the backend answered.
NoSub ==
    [file |-> NoFile, data |-> NoData, obj |-> 0, obj2 |-> 0, sent |-> FALSE,
     payload |-> NoData, res |-> "none"]

Init ==
    /\ page \in Pages
    /\ route = "page"
    /\ isLoading = (page = "edit")
    /\ fetchStatus = 0
    /\ study = NoData
    /\ imageFile = NoFile
    /\ imageSrc = NoImage
    /\ fields = Blank
    /\ description = 0
    /\ tags = <<>>
    /\ currentTag = EmptyStr
    /\ stackError = ""
    /\ tagsError = ""
    /\ pc = "idle"
    /\ sub = NoSub
    /\ objects = <<>>
    /\ toasts = {}
    /\ attempts = 0

\* The form is on screen: the page has not navigated away and, on the edit
\* page, the loading spinner is gone.
FormRendered == route = "page" /\ ~isLoading

\* ------------------------------------------------- edit page: fetchStudy
FetchPending == page = "edit" /\ route = "page" /\ isLoading /\ fetchStatus = 0

\* res.ok: the setValue calls hydrate the form; finally setIsLoading(false).
FetchOk ==
    /\ FetchPending
    /\ \E s \in Studies :
        /\ study' = s
        /\ imageSrc' = s.imageSrc
        /\ fields' = s.fields
        /\ tags' = s.tags
        /\ description' = s.fields.description
    /\ fetchStatus' = 200
    /\ isLoading' = FALSE
    /\ UNCHANGED <<page, route, imageFile, currentTag, stackError, tagsError,
                   toasts>>
    /\ UNCHANGED flowVars

\* 404: notFound() throws inside the try block, so the catch clause of
\* fetchStudy receives the error: console.error, the failure toast, and
\* finally setIsLoading(false). The route does not change.
FetchNotFound ==
    /\ FetchPending
    /\ fetchStatus' = NotFound
    /\ toasts' = toasts \cup {"loadFailed"}
    /\ isLoading' = FALSE
    /\ UNCHANGED <<page, route, study, imageFile, imageSrc, fields, description>>
    /\ UNCHANGED tagVars
    /\ UNCHANGED flowVars

\* any other non-ok status: throw new Error, caught the same way.
FetchError ==
    /\ FetchPending
    /\ fetchStatus' = 500
    /\ toasts' = toasts \cup {"loadFailed"}
    /\ isLoading' = FALSE
    /\ UNCHANGED <<page, route, study, imageFile, imageSrc, fields, description>>
    /\ UNCHANGED tagVars
    /\ UNCHANGED flowVars

\* ------------------------------------------------------------ tag editor
\* handleTagChange: setCurrentTag(e.target.value)
HandleTagChange(v) ==
    /\ FormRendered
    /\ currentTag' = v
    /\ UNCHANGED <<tags, stackError, tagsError>>

\* handleDuplicateTag without its Set-size comparison: the candidate is
\* always appended.
HandleDuplicateTag_NoCheck ==
    /\ tagsError' = ""
    /\ tags' = Append(tags, currentTag)
    /\ currentTag' = EmptyStr

\* handleDuplicateTag, on the tag variables.
HandleDuplicateTag ==
    LET newTag == Append(tags, currentTag) IN
    /\ IF Cardinality(Range(newTag)) = Len(tags)
       THEN /\ tagsError' = "Duplicate"
            /\ tags' = tags
       ELSE /\ tagsError' = ""
            /\ tags' = newTag
    /\ currentTag' = EmptyStr

\* handleTagAdd with the length test of its Enter branch dropped: Enter adds
\* whatever the length.
HandleTagAdd_NoCapacity(key) ==
    LET newTag == Trim(currentTag)
        added == Append(tags, currentTag) IN
    /\ FormRendered
    /\ stackError' =
        IF Len(tags) = MaxTags
        THEN (IF newTag # EmptyStr THEN CapacityMsg ELSE "")
        ELSE stackError
    /\ IF key = "Enter" /\ newTag # EmptyStr
       THEN /\ IF Cardinality(Range(added)) = Len(tags)
               THEN tagsError' = "Duplicate" /\ tags' = tags
               ELSE tagsError' = "" /\ tags' = added
            /\ currentTag' = EmptyStr
       ELSE UNCHANGED <<tags, currentTag, tagsError>>

\* handleTagAdd without the capacity message: a full list silently ignores
\* the key.
HandleTagAdd_NoMessage(key) ==
    LET newTag == Trim(currentTag) IN
    /\ FormRendered
    /\ stackError' = stackError
    /\ IF key = "Enter" /\ newTag # EmptyStr
       THEN IF Len(tags) # MaxTags
            THEN HandleDuplicateTag
            ELSE /\ currentTag' = EmptyStr
                 /\ UNCHANGED <<tags, tagsError>>
       ELSE UNCHANGED <<tags, currentTag, tagsError>>

\* handleTagAdd whose Enter branch does not test newTag !== '': Enter adds a
\* blank candidate too.
HandleTagAdd_NoEmptyCheck(key) ==
    LET newTag == Trim(currentTag) IN
    /\ FormRendered
    /\ stackError' =
        IF Len(tags) = MaxTags
        THEN (IF newTag # EmptyStr THEN CapacityMsg ELSE "")
        ELSE stackError
    /\ IF key = "Enter"
       THEN IF Len(tags) # MaxTags
            THEN HandleDuplicateTag
            ELSE /\ currentTag' = EmptyStr
                 /\ UNCHANGED <<tags, tagsError>>
       ELSE UNCHANGED <<tags, currentTag, tagsError>>

\* handleTagAdd, the onKeyUp handler of the tag input; the input is
\* controlled, so e.currentTarget.value is currentTag.
HandleTagAdd(key) ==
    LET newTag == Trim(currentTag) IN
    /\ FormRendered
    /\ stackError' =
        IF Len(tags) = MaxTags
        THEN (IF newTag # EmptyStr THEN CapacityMsg ELSE "")
        ELSE stackError
    /\ IF key = "Enter" /\ newTag # EmptyStr
       THEN IF Len(tags) # MaxTags
            THEN HandleDuplicateTag
            ELSE /\ currentTag' = EmptyStr
                 /\ UNCHANGED <<tags, tagsError>>
       ELSE UNCHANGED <<tags, currentTag, tagsError>>

nonTagVars ==
    <<page, route, isLoading, fetchStatus, study, imageFile, imageSrc, fields,
      description, pc, sub, objects, toasts, attempts>>

Keys == {"Enter", "other"}

\* typing into the tag input (onChange)
TagChange ==
    /\ \E v \in Candidates : HandleTagChange(v)
    /\ UNCHANGED nonTagVars

\* releasing a key in the tag input (onKeyUp)
TagKeyUp ==
    /\ \E key \in Keys : HandleTagAdd(key)
    /\ UNCHANGED nonTagVars

\* the '+' button: disabled={currentTag.trim() === '' || watchedTags.length >= 4},
\* onClick={handleDuplicateTag}
PlusClick ==
    /\ FormRendered
    /\ ~(Trim(currentTag) = EmptyStr \/ Len(tags) >= MaxTags)
    /\ HandleDuplicateTag
    /\ UNCHANGED stackError
    /\ UNCHANGED nonTagVars

\* The Reset handler without setTagError(''): the capacity message stays.
ResetClick_KeepsMessage ==
    /\ FormRendered
    /\ tagsError' = ""
    /\ tags' = <<>>
    /\ UNCHANGED <<currentTag, stackError>>
    /\ UNCHANGED nonTagVars

\* the Reset button: setTagError(''), clearErrors('tags'), setValue('tags', [])
ResetClick ==
    /\ FormRendered
    /\ stackError' = ""
    /\ tagsError' = ""
    /\ tags' = <<>>
    /\ UNCHANGED currentTag
    /\ UNCHANGED nonTagVars

Fetch == FetchOk \/ FetchNotFound \/ FetchError

\* The tag editor of both pages, with the edit page's hydration.
NextTags == Fetch \/ TagChange \/ TagKeyUp \/ PlusClick \/ ResetClick
SpecTags == Init /\ [][NextTags]_vars

\* ------------------------------------------------------ the other inputs
\* handleFileChange that sets the preview and the form value but does not
\* stage the file.
HandleFileChange_NoStage(f) ==
    /\ FormRendered
    /\ imageSrc' = BlobUrl(f)
    /\ UNCHANGED <<page, route, imageFile, fields, description, toasts>>
    /\ UNCHANGED fetchVars
    /\ UNCHANGED tagVars
    /\ UNCHANGED flowVars

\* handleFileChange with a non-empty file list
HandleFileChange(f) ==
    /\ FormRendered
    /\ imageSrc' = BlobUrl(f)
    /\ imageFile' = f
    /\ UNCHANGED <<page, route, fields, description, toasts>>
    /\ UNCHANGED fetchVars
    /\ UNCHANGED tagVars
    /\ UNCHANGED flowVars

FileChange == \E f \in Files : HandleFileChange(f)

\* The user edits title, pickers and description. On the edit page the
\* textarea's onChange sets the description mirror along with the form value.
EditFields ==
    /\ FormRendered
    /\ \E v \in FieldChoices :
        /\ fields' = v
        /\ description' = IF page = "edit" THEN v.description ELSE description
    /\ UNCHANGED <<page, route, imageFile, imageSrc, toasts>>
    /\ UNCHANGED fetchVars
    /\ UNCHANGED tagVars
    /\ UNCHANGED flowVars

\* typing into the tag input while the submission flows are explored
FlowTagChange ==
    /\ \E v \in FlowCandidates : HandleTagChange(v)
    /\ UNCHANGED nonTagVars

\* ------------------------------------------------------------ submission
\* getValues(): what handleSubmit validates and hands to onSubmit
FormData == [imageSrc |-> imageSrc, tags |-> tags, fields |-> fields]

\* A new run of onSubmit may start: the form is shown, no run is in flight
\* (the submit controls are disabled while isSubmitting).
CanSubmit == FormRendered /\ pc = "idle" /\ attempts < MaxAttempts

\* handleSubmit with invalid values: the resolver's errors replace the form
\* errors and onSubmit is not called.
SubmitInvalid ==
    /\ tagsError' = IF Len(tags) >= 1 THEN "" ELSE "too_small"
    /\ UNCHANGED <<page, route, imageFile, imageSrc, fields, description, tags,
                   currentTag, stackError, toasts>>
    /\ UNCHANGED fetchVars
    /\ UNCHANGED flowVars

\* onSubmit of the create page without the `if (!imageFile) return` guard.
OnSubmitCreate_NoGuard(data) ==
    /\ attempts' = attempts + 1
    /\ sub' = [NoSub EXCEPT !.data = data, !.file = imageFile]
    /\ pc' = "uploading"
    /\ UNCHANGED <<page, route, imageFile, imageSrc, fields, description, tags,
                   currentTag, stackError, objects, toasts>>
    /\ UNCHANGED fetchVars

\* create page, onSubmit up to its first await:
\*   if (!imageFile) return; const file = await fileHandler.upload(imageFile)
OnSubmitCreate(data) ==
    /\ attempts' = attempts + 1
    /\ IF imageFile = NoFile
       THEN /\ sub' = [NoSub EXCEPT !.data = data]
            /\ pc' = "idle"
       ELSE /\ sub' = [NoSub EXCEPT !.data = data, !.file = imageFile]
            /\ pc' = "uploading"
    /\ UNCHANGED <<page, route, imageFile, imageSrc, fields, description, tags,
                   currentTag, stackError, objects, toasts>>
    /\ UNCHANGED fetchVars

\* create page: handleSubmit(onSubmit)
CreateSubmit ==
    /\ page = "create"
    /\ CanSubmit
    /\ IF Valid(FormData)
       THEN /\ tagsError' = ""
            /\ OnSubmitCreate(FormData)
       ELSE SubmitInvalid

\* The POST issued with the form's own imageSrc (the local preview URL)
\* instead of the URL the upload returned.
CreateUploadOk_PreviewUrl ==
    /\ page = "create"
    /\ pc = "uploading"
    /\ objects' = StorageUpload(objects, sub.file)
    /\ sub' = [sub EXCEPT !.obj = Len(objects'), !.sent = TRUE, !.payload = sub.data]
    /\ pc' = "posting"
    /\ UNCHANGED <<page, route, imageFile, imageSrc, fields, description, toasts,
                   attempts>>
    /\ UNCHANGED fetchVars
    /\ UNCHANGED tagVars

\* create page: the upload resolves and the POST is issued with its URL.
CreateUploadOk ==
    /\ page = "create"
    /\ pc = "uploading"
    /\ objects' = StorageUpload(objects, sub.file)
    /\ sub' = [sub EXCEPT !.obj = Len(objects'),
                          !.sent = TRUE,
                          !.payload = [sub.data EXCEPT !.imageSrc = UploadUrl(Len(objects'))]]
    /\ pc' = "posting"
    /\ UNCHANGED <<page, route, imageFile, imageSrc, fields, description, toasts,
                   attempts>>
    /\ UNCHANGED fetchVars
    /\ UNCHANGED tagVars

\* create page: the upload rejects; onSubmit ends with the rejection.
CreateUploadThrow ==
    /\ page = "create"
    /\ pc = "uploading"
    /\ pc' = "idle"
    /\ UNCHANGED <<page, route, imageFile, imageSrc, fields, description, toasts,
                   sub, objects, attempts>>
    /\ UNCHANGED fetchVars
    /\ UNCHANGED tagVars

\* The success branch without file.commit().
CreateResponseOk_NoCommit ==
    /\ page = "create"
    /\ pc = "posting"
    /\ sub' = [sub EXCEPT !.res = "ok"]
    /\ toasts' = toasts \cup {"created"}
    /\ route' = "/study"
    /\ pc' = "idle"
    /\ UNCHANGED <<page, imageFile, imageSrc, fields, description, objects,
                   attempts>>
    /\ UNCHANGED fetchVars
    /\ UNCHANGED tagVars

\* create page, res.ok: file.commit(), the success toast, router.push.
CreateResponseOk ==
    /\ page = "create"
    /\ pc = "posting"
    /\ sub' = [sub EXCEPT !.res = "ok"]
    /\ objects' = StorageCommit(objects, sub.obj)
    /\ toasts' = toasts \cup {"created"}
    /\ route' = "/study"
    /\ pc' = "idle"
    /\ UNCHANGED <<page, imageFile, imageSrc, fields, description, attempts>>
    /\ UNCHANGED fetchVars
    /\ UNCHANGED tagVars

\* The failure branch returning without file.delete().
CreateResponseFail_NoDelete ==
    /\ page = "create"
    /\ pc = "posting"
    /\ sub' = [sub EXCEPT !.res = "fail"]
    /\ pc' = "idle"
    /\ UNCHANGED <<page, route, imageFile, imageSrc, fields, description, toasts,
                   objects, attempts>>
    /\ UNCHANGED fetchVars
    /\ UNCHANGED tagVars

\* create page, !res.ok: await file.delete(); return
CreateResponseFail ==
    /\ page = "create"
    /\ pc = "posting"
    /\ sub' = [sub EXCEPT !.res = "fail"]
    /\ objects' = StorageDelete(objects, sub.obj)
    /\ pc' = "idle"
    /\ UNCHANGED <<page, route, imageFile, imageSrc, fields, description, toasts,
                   attempts>>
    /\ UNCHANGED fetchVars
    /\ UNCHANGED tagVars

\* create page: fetchData rejects; nothing after the await runs.
CreateResponseThrow ==
    /\ page = "create"
    /\ pc = "posting"
    /\ sub' = [sub EXCEPT !.res = "throw"]
    /\ pc' = "idle"
    /\ UNCHANGED <<page, route, imageFile, imageSrc, fields, description, toasts,
                   objects, attempts>>
    /\ UNCHANGED fetchVars
    /\ UNCHANGED tagVars

\* edit page: submitData, with the description taken from the mirror
EditPayload(data, fileUrl, desc) ==
    [data EXCEPT !.imageSrc = fileUrl, !.fields.description = desc]

\* onSubmit of the edit page with fileUrl left undefined instead of starting
\* from data.imageSrc.
OnSubmitEdit_NoInitialUrl(data) ==
    /\ attempts' = attempts + 1
    /\ IF imageFile # NoFile
       THEN /\ sub' = [NoSub EXCEPT !.data = EditPayload(data, data.imageSrc, description),
                                    !.file = imageFile]
            /\ pc' = "uploading"
       ELSE /\ sub' = [NoSub EXCEPT !.data = EditPayload(data, data.imageSrc, description),
                                    !.sent = TRUE,
                                    !.payload = EditPayload(data, NoImage, description)]
            /\ pc' = "posting"
    /\ UNCHANGED <<page, route, imageFile, imageSrc, fields, description, tags,
                   currentTag, stackError, objects, toasts>>
    /\ UNCHANGED fetchVars

\* edit page, onSubmit up to its first await: with a staged file the upload,
\* without one the PUT itself.
OnSubmitEdit(data) ==
    /\ attempts' = attempts + 1
    /\ IF imageFile # NoFile
       THEN /\ sub' = [NoSub EXCEPT !.data = EditPayload(data, data.imageSrc, description),
                                    !.file = imageFile]
            /\ pc' = "uploading"
       ELSE /\ sub' = [NoSub EXCEPT !.data = EditPayload(data, data.imageSrc, description),
                                    !.sent = TRUE,
                                    !.payload = EditPayload(data, data.imageSrc, description)]
            /\ pc' = "posting"
    /\ UNCHANGED <<page, route, imageFile, imageSrc, fields, description, tags,
                   currentTag, stackError, objects, toasts>>
    /\ UNCHANGED fetchVars

\* edit page: handleSubmit(onSubmit)
EditSubmit ==
    /\ page = "edit"
    /\ CanSubmit
    /\ IF Valid(FormData)
       THEN /\ tagsError' = ""
            /\ OnSubmitEdit(FormData)
       ELSE SubmitInvalid

\* edit page: the upload resolves and the PUT is issued with its URL.
EditUploadOk ==
    /\ page = "edit"
    /\ pc = "uploading"
    /\ objects' = StorageUpload(objects, sub.file)
    /\ sub' = [sub EXCEPT !.obj = Len(objects'),
                          !.sent = TRUE,
                          !.payload = [sub.data EXCEPT !.imageSrc = UploadUrl(Len(objects'))]]
    /\ pc' = "posting"
    /\ UNCHANGED <<page, route, imageFile, imageSrc, fields, description, toasts,
                   attempts>>
    /\ UNCHANGED fetchVars
    /\ UNCHANGED tagVars

\* edit page: an upload rejects (the first or the second); the catch clause
\* shows the failure toast.
EditUploadThrow ==
    /\ page = "edit"
    /\ pc \in {"uploading", "reuploading"}
    /\ toasts' = toasts \cup {"updateFailed"}
    /\ pc' = "idle"
    /\ UNCHANGED <<page, route, imageFile, imageSrc, fields, description, sub,
                   objects, attempts>>
    /\ UNCHANGED fetchVars
    /\ UNCHANGED tagVars

\* edit page, res.ok: the success toast and router.push; nothing else.
EditResponseOk ==
    /\ page = "edit"
    /\ pc = "posting"
    /\ sub' = [sub EXCEPT !.res = "ok"]
    /\ toasts' = toasts \cup {"updated"}
    /\ route' = "/mystudy/id"
    /\ pc' = "idle"
    /\ UNCHANGED <<page, imageFile, imageSrc, fields, description, objects,
                   attempts>>
    /\ UNCHANGED fetchVars
    /\ UNCHANGED tagVars

\* edit page, !res.ok: with a staged file, upload it again (await); without
\* one, throw at once, which the catch clause turns into the failure toast.
EditResponseFail ==
    /\ page = "edit"
    /\ pc = "posting"
    /\ sub' = [sub EXCEPT !.res = "fail"]
    /\ IF sub.file # NoFile
       THEN /\ pc' = "reuploading"
            /\ toasts' = toasts
       ELSE /\ pc' = "idle"
            /\ toasts' = toasts \cup {"updateFailed"}
    /\ UNCHANGED <<page, route, imageFile, imageSrc, fields, description, objects,
                   attempts>>
    /\ UNCHANGED fetchVars
    /\ UNCHANGED tagVars

\* edit page: fetchData rejects; the catch clause shows the failure toast.
EditResponseThrow ==
    /\ page = "edit"
    /\ pc = "posting"
    /\ sub' = [sub EXCEPT !.res = "throw"]
    /\ toasts' = toasts \cup {"updateFailed"}
    /\ pc' = "idle"
    /\ UNCHANGED <<page, route, imageFile, imageSrc, fields, description, objects,
                   attempts>>
    /\ UNCHANGED fetchVars
    /\ UNCHANGED tagVars

\* edit page: the second upload resolves; await file.delete() on the object
\* it returned, then throw, caught with the failure toast.
EditReuploadOk ==
    /\ page = "edit"
    /\ pc = "reuploading"
    /\ objects' = StorageDelete(StorageUpload(objects, sub.file), Len(objects) + 1)
    /\ sub' = [sub EXCEPT !.obj2 = Len(objects) + 1]
    /\ toasts' = toasts \cup {"updateFailed"}
    /\ pc' = "idle"
    /\ UNCHANGED <<page, route, imageFile, imageSrc, fields, description, attempts>>
    /\ UNCHANGED fetchVars
    /\ UNCHANGED tagVars

Next ==
    \/ Fetch
    \/ FlowTagChange \/ TagKeyUp \/ PlusClick \/ ResetClick
    \/ FileChange \/ EditFields
    \/ CreateSubmit \/ CreateUploadOk \/ CreateUploadThrow
    \/ CreateResponseOk \/ CreateResponseFail \/ CreateResponseThrow
    \/ EditSubmit \/ EditUploadOk \/ EditUploadThrow
    \/ EditResponseOk \/ EditResponseFail \/ EditResponseThrow \/ EditReuploadOk

\* Both pages, from mount to navigation.
Spec == Init /\ [][Next]_vars

\* ------------------------------------------- onSubmit of the create page
\* onSubmit called with the form's current values whatever the resolver
\* would say of them: the handler exercised on its own, as a caller other
\* than handleSubmit would.
CreateOnSubmitDirect ==
    /\ page = "create"
    /\ CanSubmit
    /\ UNCHANGED tagsError
    /\ OnSubmitCreate(FormData)

InitCreate == Init /\ page = "create"

NextOnSubmit ==
    \/ FileChange \/ EditFields
    \/ FlowTagChange \/ TagKeyUp \/ ResetClick
    \/ CreateOnSubmitDirect \/ CreateUploadOk \/ CreateUploadThrow
    \/ CreateResponseOk \/ CreateResponseFail \/ CreateResponseThrow

SpecOnSubmit == InitCreate /\ [][NextOnSubmit]_vars

\* ================================================================ claims
StatusOf(i) == objects[i].status
Uploaded(i) == i \in 1..Len(objects)

\* C1: with the create page's empty list or a fetched list of at most 4
\* entries to start from, the form's tag list never holds more than 4
\* entries, whatever tag adds (Enter, '+') and Resets are made.
C1_TagListAtMostFour ==
    (page = "create" \/ Len(study.tags) <= MaxTags) => Len(tags) <= MaxTags

\* C1 witness: the list is full and a further add was attempted (the capacity
\* message is on screen).
C1_Witness ==
    /\ FormRendered
    /\ Len(tags) = MaxTags
    /\ stackError = CapacityMsg
    /\ currentTag = EmptyStr

\* C2: starting from the empty list or a fetched list without duplicates, no
\* two entries of the tag list are equal as strings.
C2_TagsPairwiseDistinct ==
    NoDuplicates(study.tags) => NoDuplicates(tags)

\* C2 witness: an add of an entry already in a list of two or more entries
\* was refused.
C2_Witness ==
    /\ FormRendered
    /\ tagsError = "Duplicate"
    /\ Len(tags) >= 2
    /\ NoDuplicates(study.tags)

\* C3 (as claimed): once the fetch has answered 404, the not-found view is
\* shown and the edit form is not rendered.
C3_NotFoundViewShown ==
    fetchStatus = NotFound => (route = "notFound" /\ ~FormRendered)

\* C4: create flow, a valid form with a staged image whose POST returns a
\* non-success response: the object uploaded in that attempt is deleted, no
\* success notification is shown and the page does not navigate; and an
\* object is committed only by the attempt that got the success response,
\* so the deleted one never is.
C4_CreateFailureRollsBack ==
    page = "create" =>
        /\ sub.res = "fail" =>
            /\ Uploaded(sub.obj)
            /\ StatusOf(sub.obj) = "deleted"
            /\ "created" \notin toasts
            /\ route = "page"
        /\ \A i \in 1..Len(objects) :
            StatusOf(i) = "committed" => (sub.res = "ok" /\ sub.obj = i)

\* C4 witness: a run of onSubmit on valid data with a staged file has ended
\* on a non-success response.
C4_Witness ==
    /\ page = "create"
    /\ sub.res = "fail"
    /\ pc = "idle"
    /\ Valid(sub.data)
    /\ sub.file # NoFile

\* C5: create flow, a valid form with a staged image whose POST returns
\* success: the uploaded object is committed (not deleted), the success
\* notification is shown and the page has navigated to the study listing.
C5_CreateSuccessCommits ==
    (page = "create" /\ sub.res = "ok") =>
        /\ Uploaded(sub.obj)
        /\ StatusOf(sub.obj) = "committed"
        /\ "created" \in toasts
        /\ route = "/study"

\* C5 witness: a run of onSubmit on valid data with a staged file has ended
\* on a success response.
C5_Witness ==
    /\ page = "create"
    /\ sub.res = "ok"
    /\ Valid(sub.data)
    /\ sub.file # NoFile

\* C6: create flow, onSubmit run with no file staged: it uploads nothing,
\* never issues the POST, shows no notification and does not navigate.
C6_NoFileNoBackendCall ==
    (page = "create" /\ attempts > 0 /\ sub.file = NoFile) =>
        /\ pc = "idle"
        /\ sub.obj = 0
        /\ ~sub.sent
        /\ sub.res = "none"
        /\ toasts = {}
        /\ route = "page"

\* C6 witness: onSubmit has run with no file staged.
C6_Witness ==
    /\ page = "create"
    /\ attempts > 0
    /\ sub.file = NoFile
    /\ imageFile = NoFile

\* C7 (as claimed): edit flow, the PUT returned a non-success response after
\* a staged file was uploaded, and the handler's rollback has run to its end:
\* no object uploaded during the attempt is left undeleted.
C7_EditFailureDeletesUpload ==
    (page = "edit" /\ sub.res = "fail" /\ pc = "idle" /\ sub.obj # 0 /\ sub.obj2 # 0) =>
        /\ StatusOf(sub.obj) = "deleted"
        /\ StatusOf(sub.obj2) = "deleted"

\* C8 (as claimed): in both flows, a submission with a staged file that the
\* backend answered with success ends with its upload committed.
C8_SuccessCommitsUpload ==
    (sub.res = "ok" /\ sub.file # NoFile) =>
        (Uploaded(sub.obj) /\ StatusOf(sub.obj) = "committed")

\* C9, the state part: while the upload is in flight the backend call has
\* not been issued; a call issued with a file staged follows that file's
\* upload and carries the URL the upload returned; and until the backend has
\* answered, the uploaded object is neither committed nor deleted.
C9_UploadBeforeCall ==
    /\ pc = "uploading" => (~sub.sent /\ sub.obj = 0)
    /\ (sub.sent /\ sub.file # NoFile) =>
        /\ Uploaded(sub.obj)
        /\ objects[sub.obj].file = sub.file
        /\ sub.payload.imageSrc = UploadUrl(sub.obj)
    /\ (pc = "posting" /\ sub.obj # 0) => StatusOf(sub.obj) = "provisional"

\* C9, the step part: an object becomes committed only in a run that got a
\* success response, and deleted only in a run that got a non-success one.
C9_ResultDecides ==
    \A i \in 1..Len(objects') :
        LET old == IF i <= Len(objects) THEN StatusOf(i) ELSE "provisional" IN
        /\ (objects'[i].status = "committed" /\ old # "committed") => sub'.res = "ok"
        /\ (objects'[i].status = "deleted" /\ old # "deleted") => sub'.res = "fail"

\* C9: in both flows, with a file staged, the upload completes before the
\* backend call is issued and the payload carries the URL it returned; commit
\* follows only a success response and delete only a non-success response.
C9_UploadCallThenCommitOrDelete ==
    []C9_UploadBeforeCall /\ [][C9_ResultDecides]_vars

\* C9 witness: an edit run with a staged file was answered with a failure and
\* deleted an object after that answer.
C9_Witness ==
    /\ page = "edit"
    /\ sub.sent
    /\ sub.file # NoFile
    /\ sub.res = "fail"
    /\ sub.obj2 # 0
    /\ StatusOf(sub.obj2) = "deleted"

\* C10 (as claimed): an add that lengthens the list appends the trimmed
\* candidate.
C10_AddAppendsTrimmed ==
    [][(FormRendered /\ Len(tags') = Len(tags) + 1)
          => tags' = Append(tags, Trim(currentTag))]_vars

\* Steps of the tag editor, as the claims below name them.
\* Enter released in the tag input.
EnterKeyUp == HandleTagAdd("Enter") /\ UNCHANGED nonTagVars
\* The candidate is not blank: trim() leaves something.
NonBlank(s) == Trim(s) # EmptyStr

\* C11: with 4 entries in the list, Enter on a non-blank candidate leaves the
\* list unchanged and sets the capacity message, whether or not the candidate
\* equals an entry of the list.
C11_FifthTagRefused ==
    [][(Len(tags) = MaxTags /\ NonBlank(currentTag) /\ EnterKeyUp)
          => (tags' = tags /\ stackError' = CapacityMsg)]_vars

\* C11 witness: on the edit page the fetched list of 4 entries is intact, the
\* capacity message is shown and the input has been cleared by the refused
\* Enter.
C11_Witness ==
    /\ page = "edit"
    /\ FormRendered
    /\ Len(study.tags) = MaxTags
    /\ tags = study.tags
    /\ stackError = CapacityMsg
    /\ currentTag = EmptyStr

\* An add attempt: Enter released in the tag input, or a click on '+'.
AddStep == EnterKeyUp \/ PlusClick

C12_DuplicateRefusedInDistinctList ==
    [][(Len(tags) < MaxTags /\ NoDuplicates(tags) /\ NonBlank(currentTag)
            /\ currentTag \in Range(tags) /\ AddStep)
          => (tagsError' = "Duplicate" /\ tags' = tags)]_vars

\* C13: a click on Reset, whatever the list and whichever of the two tag
\* errors are set, leaves an empty tag list with the tags field error and the
\* capacity message both cleared.
C13_ResetClearsAll ==
    [][ResetClick => (tags' = <<>> /\ stackError' = "" /\ tagsError' = "")]_vars

\* C13 witness: the edit page was hydrated (every fetched list has entries)
\* and its list is empty again, with no error shown: Reset has acted.
C13_Witness ==
    /\ page = "edit"
    /\ FormRendered
    /\ fetchStatus = 200
    /\ tags = <<>>
    /\ stackError = ""
    /\ tagsError = ""

\* An attempt on the tag input: any key released in it, or a click on '+'.
TagAttempt == TagKeyUp \/ PlusClick

\* C14 (as claimed): with a blank (empty or whitespace-only) input, a key-up
\* or a '+' attempt leaves the tag list, the tags field error and the
\* capacity message unchanged.
C14_BlankAddChangesNothing ==
    [][(~NonBlank(currentTag) /\ TagAttempt)
          => (tags' = tags /\ tagsError' = tagsError /\ stackError' = stackError)]_vars

\* C14 (amended): with a blank input, a key-up or a '+' attempt leaves the tag
\* list, the input and the tags field error unchanged; the capacity message
\* is unchanged unless the list has exactly 4 entries, and is cleared then.
C14_BlankAddKeepsListAndFieldError ==
    [][(~NonBlank(currentTag) /\ TagAttempt)
          => /\ tags' = tags
             /\ currentTag' = currentTag
             /\ tagsError' = tagsError
             /\ stackError' = IF Len(tags) = MaxTags THEN "" ELSE stackError]_vars

\* C14 witness: the list is full, the capacity message is shown and the input
\* holds only blanks: the state in which a key-up clears the message.
C14_Witness ==
    /\ FormRendered
    /\ Len(tags) = MaxTags
    /\ stackError = CapacityMsg
    /\ currentTag = <<Space, Space>>

\* C15: edit flow, a valid update submitted with no new image staged: the run
\* uploads nothing and the imageSrc of the PUT payload is the imageSrc of the
\* fetched record, whatever else the user edited in between.
C15_EditReusesFetchedImage ==
    page = "edit" =>
        /\ pc \in {"uploading", "reuploading"} => sub.file # NoFile
        /\ (sub.sent /\ sub.file = NoFile) =>
            /\ fetchStatus = 200
            /\ sub.obj = 0
            /\ sub.obj2 = 0
            /\ sub.payload.imageSrc = study.imageSrc

\* C15 witness: a PUT sent with no file staged, after the user changed the
\* tags of the fetched record, was answered.
C15_Witness ==
    /\ page = "edit"
    /\ sub.sent
    /\ sub.file = NoFile
    /\ sub.payload.tags # study.tags
    /\ sub.res = "ok"

\* A tag list the wire format allows: 1 to 4 pairwise-distinct strings.
WireTags(t) == Len(t) >= 1 /\ Len(t) <= MaxTags /\ NoDuplicates(t)

C16_PayloadTagsValidFromValidRecord ==
    sub.sent =>
        /\ Len(sub.payload.tags) >= 1
        /\ (page = "create" \/ WireTags(study.tags)) => WireTags(sub.payload.tags)

\* C17: on the create page the form's imageSrc is set exactly when a file is
\* staged, so every run of onSubmit that handleSubmit starts (a validated
\* form) finds a staged file and does not take the silent abort.
C17_ImageSrcIffStagedFile ==
    page = "create" =>
        /\ (imageSrc # NoImage) <=> (imageFile # NoFile)
        /\ attempts > 0 => sub.file # NoFile

C17_Witness ==
    /\ page = "create"
    /\ attempts > 0
    /\ pc = "uploading"
    /\ imageFile # NoFile
    /\ imageSrc = BlobUrl(imageFile)
    /\ sub.file = imageFile
    /\ Valid(sub.data)

\* C18 (as claimed): create flow, once an attempt's upload has completed the
\* attempt ends with the uploaded object committed or deleted, also when the
\* create call raises; no attempt ends with the object provisional.
C18_AttemptEndsCommittedOrDeleted ==
    (page = "create" /\ pc = "idle" /\ sub.obj # 0) =>
        StatusOf(sub.obj) \in {"committed", "deleted"}

\* C18, for attempts the backend answered: the object is committed or
\* deleted when the attempt ends.
C18_AnsweredAttemptEndsCommittedOrDeleted ==
    (page = "create" /\ pc = "idle" /\ sub.obj # 0 /\ sub.res # "throw") =>
        StatusOf(sub.obj) \in {"committed", "deleted"}
====
